---- MODULE Spec2Model ----
(***************************************************************************)
(* Weatherstack API framework: the request / retry / error-mapping logic   *)
(* of WeatherAPIClient (api_client/weather_client.py) and the response     *)
(* checks of ResponseValidator and DataHelper (utils/helpers.py).          *)
(*                                                                         *)
(* Three specifications share the module:                                  *)
(*   Spec      one client, a bounded number of query operations, the      *)
(*             transport's answer to every GET chosen nondeterministically;*)
(*   SpecFair  Spec with every attempt and every handling step completing; *)
(*   SpecV     direct calls of the four ResponseValidator operations on   *)
(*             parsed JSON values of every shape.                         *)
(***************************************************************************)
EXTENDS Integers, Sequences, FiniteSets, TLC

VARIABLES
    \* ---- WeatherAPIClient instance (weather_client.py 33-36)
    api_key, base_url, timeout, max_retries,
    \* ---- the query operation in progress
    pc,          \* "idle" | "request" | "handle" | "returned" | "raised"
    op,          \* "none" | "current" | "historical" | "forecast"
    qargs,       \* the arguments the caller gave to the query operation
    endpoint,    \* endpoint path handed to _make_request
    params,      \* parameter mapping handed to _make_request
    retry_count, \* _make_request's retry_count argument of the current frame
    answer,      \* the transport's answer to the last GET: [error, status, body]
    data,        \* what _make_request returned to the query operation
    result,      \* what the query operation returned to its caller
    exc,         \* the exception that left the query operation
    gets,        \* the GETs issued by the current call, in order
    sleeps,      \* time.sleep(1) calls made by the current call
    timeouts,    \* transport timeouts seen by the current call
    log,         \* logger entries emitted by the current call, in order
    detectLog,   \* Len(log) when the attempt / step that raised began
    calls,       \* query operations started on this client so far
    earlierRetries, \* an earlier call on this client slept and retried
    \* ---- a direct ResponseValidator call
    vfun,        \* which validator operation was called last
    varg,        \* its argument
    vret,        \* its outcome: [exc, v]
    vlog         \* the logger entries it emitted

clientVars == <<api_key, base_url, timeout, max_retries>>
callVars == <<pc, op, qargs, endpoint, params, retry_count, answer, data,
              result, exc, gets, sleeps, timeouts, log, detectLog, calls,
              earlierRetries>>
queryVars == <<op, qargs, earlierRetries>>
validatorVars == <<vfun, varg, vret, vlog>>
vars == <<clientVars, callVars, validatorVars>>

----------------------------------------------------------------------------
(* Parsed JSON values (what response.json() can produce), tagged by the    *)
(* Python type of the parsed value.  A float is kept by its integral       *)
(* value; only its type and its equality with integers matter here.        *)

JNull == [t |-> "null"]
JBool(b) == [t |-> "bool", v |-> b]
JInt(n) == [t |-> "int", v |-> n]
JFloat(n) == [t |-> "float", v |-> n]
JStr(s) == [t |-> "str", v |-> s]
JList(q) == [t |-> "list", v |-> q]
JMap(f) == [t |-> "map", v |-> f]

EmptyMap == JMap([k \in {} |-> JNull])

\* A value that is no parsed JSON value: "nothing here" in result / data.
Unset == [t |-> "unset"]

\* Outcome of evaluating a Python expression: a value or a raised exception.
Ok(x) == [exc |-> "ok", v |-> x]
Raises(e) == [exc |-> e, v |-> FALSE]

\* Python's substring test on the strings of this model: `k in s` for str s.
SubstringPairs ==
    { <<"error", "internal error">>, <<"location", "no location given">> }

StrContains(s, k) == k = s \/ <<k, s>> \in SubstringPairs

\* Python `key in x` for a str key: dict -> key test, list -> membership,
\* str -> substring, None/bool/int/float -> TypeError (not iterable).
PyIn(key, x) ==
    CASE x.t = "map"  -> Ok(key \in DOMAIN x.v)
      [] x.t = "list" -> Ok(\E i \in 1..Len(x.v) : x.v[i] = JStr(key))
      [] x.t = "str"  -> Ok(StrContains(x.v, key))
      [] OTHER        -> Raises("TypeError")

\* Python `x[key]` for a str key, used only after `key in x` was true:
\* dict -> the value, list/str -> TypeError (indices must be integers).
PyGetItem(x, key) ==
    IF x.t = "map" /\ key \in DOMAIN x.v THEN Ok(x.v[key])
    ELSE IF x.t = "map" THEN Raises("KeyError")
    ELSE Raises("TypeError")

\* Python `x.get(key)`: only dict has the method; a missing key gives None.
PyGet(x, key) ==
    IF x.t = "map"
    THEN Ok(IF key \in DOMAIN x.v THEN x.v[key] ELSE JNull)
    ELSE Raises("AttributeError")

\* Python `x.get(key, {})`.
PyGetOrEmpty(x, key) ==
    IF x.t = "map"
    THEN Ok(IF key \in DOMAIN x.v THEN x.v[key] ELSE EmptyMap)
    ELSE Raises("AttributeError")

\* isinstance(x, str), isinstance(x, (int, float)), isinstance(x, list).
\* bool is a subclass of int in Python, so a parsed true/false is an int.
IsInstanceStr(x) == x.t = "str"
IsInstanceNumber(x) == x.t \in {"int", "float", "bool"}
IsInstanceList(x) == x.t = "list"

\* One logger entry: level, the fixed part of the message, its arguments.
LogEntry(level, what, args) == [level |-> level, what |-> what, args |-> args]

RECURSIVE SeqToStrList(_)
SeqToStrList(q) ==
    IF q = <<>> THEN <<>> ELSE <<JStr(Head(q))>> \o SeqToStrList(Tail(q))

----------------------------------------------------------------------------
(* ResponseValidator (utils/helpers.py 14-109)                              *)

ResponseRequiredKeysMissingCurrent == <<"request", "location">>

ResponseRequiredKeys == <<"request", "location", "current">>

LocationRequiredKeys ==
    <<"name", "country", "region", "lat", "lon", "timezone_id">>

CurrentRequiredKeys ==
    <<"temperature", "weather_descriptions", "wind_speed", "wind_degree",
      "pressure", "humidity", "cloudcover", "feelslike", "visibility">>

\* The shared body of the three key checks:
\*   if not all(key in x for key in required): log the missing ones, False
\*   return True
\* `key in x` raises TypeError for None / bool / int / float; nothing
\* catches it.
RequiredKeysCheck(x, required, what) ==
    IF required # <<>> /\ PyIn(Head(required), x).exc # "ok"
    THEN [exc |-> PyIn(Head(required), x).exc, v |-> FALSE, log |-> <<>>]
    ELSE LET missing == SelectSeq(required, LAMBDA k : ~PyIn(k, x).v)
         IN  IF missing # <<>>
             THEN [exc |-> "ok", v |-> FALSE,
                   log |-> <<LogEntry("ERROR", what, SeqToStrList(missing))>>]
             ELSE [exc |-> "ok", v |-> TRUE, log |-> <<>>]

validate_response_structure(response) ==
    RequiredKeysCheck(response, ResponseRequiredKeys, "Missing required keys")

validate_location_data(location_data) ==
    RequiredKeysCheck(location_data, LocationRequiredKeys,
                      "Missing location keys")

validate_current_weather_data(current_data) ==
    RequiredKeysCheck(current_data, CurrentRequiredKeys,
                      "Missing current weather keys")

\* The try block of validate_data_types: the first failing step decides the
\* exception (AttributeError from .get on a non-dict, AssertionError from an
\* assert); "ok" when every step passes.
DataTypesTry(response) ==
    LET location == PyGetOrEmpty(response, "location")
        current == PyGetOrEmpty(response, "current")
    IN  IF location.exc # "ok" THEN location.exc
        ELSE IF PyGet(location.v, "name").exc # "ok"
             THEN PyGet(location.v, "name").exc
        ELSE IF ~IsInstanceStr(PyGet(location.v, "name").v)
             THEN "AssertionError"
        ELSE IF ~IsInstanceStr(PyGet(location.v, "country").v)
             THEN "AssertionError"
        ELSE IF ~IsInstanceStr(PyGet(location.v, "lat").v)
             THEN "AssertionError"
        ELSE IF ~IsInstanceStr(PyGet(location.v, "lon").v)
             THEN "AssertionError"
        ELSE IF PyGet(current.v, "temperature").exc # "ok"
             THEN PyGet(current.v, "temperature").exc
        ELSE IF ~IsInstanceNumber(PyGet(current.v, "temperature").v)
             THEN "AssertionError"
        ELSE IF ~IsInstanceList(PyGet(current.v, "weather_descriptions").v)
             THEN "AssertionError"
        ELSE IF ~IsInstanceNumber(PyGet(current.v, "wind_speed").v)
             THEN "AssertionError"
        ELSE IF ~IsInstanceNumber(PyGet(current.v, "humidity").v)
             THEN "AssertionError"
        ELSE IF ~IsInstanceNumber(PyGet(current.v, "pressure").v)
             THEN "AssertionError"
        ELSE "ok"

\* except (AssertionError, TypeError, AttributeError): log, return False.
validate_data_types(response) ==
    LET e == DataTypesTry(response)
    IN  IF e = "ok" THEN [exc |-> "ok", v |-> TRUE, log |-> <<>>]
        ELSE IF e \in {"AssertionError", "TypeError", "AttributeError"}
        THEN [exc |-> "ok", v |-> FALSE,
              log |-> <<LogEntry("ERROR", "Data type validation failed",
                                 <<JStr(e)>>)>>]
        ELSE [exc |-> e, v |-> FALSE, log |-> <<>>]

----------------------------------------------------------------------------
(* Inputs of the direct validator calls.                                    *)

\* How many of the nine type-checked fields may deviate from a well-typed
\* response in one input of validate_data_types.
MaxWrongFields == 1

\* Parsed values of every JSON type, as a payload or as a sub-tree.
Shapes ==
    { JNull, JBool(TRUE), JInt(5), JFloat(5), JStr("London"),
      JStr("location"), JList(<<>>), JList(<<JStr("request")>>), EmptyMap }

Kinds == {"missing", "null", "bool", "int", "float", "str", "list", "map"}

Rep(kind) ==
    CASE kind = "null"  -> JNull
      [] kind = "bool"  -> JBool(TRUE)
      [] kind = "int"   -> JInt(21)
      [] kind = "float" -> JFloat(21)
      [] kind = "str"   -> JStr("London")
      [] kind = "list"  -> JList(<<JStr("Sunny")>>)
      [] OTHER          -> EmptyMap

LocationTypedFields == {"name", "country", "lat", "lon"}
CurrentTypedFields ==
    {"temperature", "weather_descriptions", "wind_speed", "humidity",
     "pressure"}
TypedFields == LocationTypedFields \cup CurrentTypedFields

\* The kind each field has in a real response of the service.
ServiceKind(f) ==
    IF f \in LocationTypedFields THEN "str"
    ELSE IF f = "weather_descriptions" THEN "list" ELSE "int"

\* A response whose typed fields have the kinds `dev` gives (the service's
\* kind where dev is silent); a field of kind "missing" is left out.
TypedPayload(dev) ==
    LET kindOf(f) == IF f \in DOMAIN dev THEN dev[f] ELSE ServiceKind(f)
        sub(fields) ==
            JMap([f \in {g \in fields : kindOf(g) # "missing"} |->
                    Rep(kindOf(f))])
    IN  JMap([k \in {"request", "location", "current"} |->
                CASE k = "location" -> sub(LocationTypedFields)
                  [] k = "current"  -> sub(CurrentTypedFields)
                  [] OTHER          -> EmptyMap])

WellTyped == TypedPayload([f \in {} |-> "str"])

TypedInputs ==
    UNION { {TypedPayload(dev) : dev \in [D -> Kinds]} :
            D \in {S \in SUBSET TypedFields : Cardinality(S) <= MaxWrongFields} }

\* A well-typed response with `location` / `current` replaced by any shape,
\* or left out.
SubtreeInputs ==
    { JMap([WellTyped.v EXCEPT ![k] = x]) :
        k \in {"location", "current"}, x \in Shapes }
    \cup { JMap([k \in {"request", "location", "current"} \ {gone} |->
                   WellTyped.v[k]]) : gone \in {"location", "current"} }

TopLevelKeys ==
    {"request", "location", "current", "error", "historical", "forecast"}

KeyMaps(keys) == { JMap([k \in K |-> EmptyMap]) : K \in SUBSET keys }

Range(q) == { q[i] : i \in 1..Len(q) }

StructureInputs == Shapes \cup KeyMaps(TopLevelKeys) \cup {WellTyped}
LocationInputs == Shapes \cup KeyMaps(Range(LocationRequiredKeys))
CurrentInputs == Shapes \cup KeyMaps(Range(CurrentRequiredKeys))
DataTypesInputs == Shapes \cup TypedInputs \cup SubtreeInputs

----------------------------------------------------------------------------
(* Configuration (config/config.py) and the exception taxonomy              *)
(* (utils/exceptions.py).                                                   *)

API_BASE_URL == "https://api.weatherstack.com"
API_KEY == "b6c3ba2323249a96c37b7eff8c1c2d89"
TIMEOUT == 10
MAX_RETRIES == 3

ENDPOINTSForecastSwapped ==
    [current |-> "/current", historical |-> "/forecast",
     forecast |-> "/historical"]

ENDPOINTS ==
    [current |-> "/current", historical |-> "/historical",
     forecast |-> "/forecast"]

\* WeatherAPIException.__init__(message, status_code=None, error_code=None):
\* the message is kept as its fixed text and the values formatted into it.
Exception(kind, text, args, error_code) ==
    [kind |-> kind, text |-> text, args |-> args, status_code |-> JNull,
     error_code |-> error_code]

NoException == Exception("none", "", <<>>, JNull)

\* An exception that is not of the framework's taxonomy (a Python built-in).
BuiltinException(kind) == Exception(kind, "", <<>>, JNull)

\* The five leaf kinds of utils/exceptions.py.
LeafKinds ==
    {"InvalidAPIKeyException", "InvalidLocationException",
     "APIRequestException", "UsageLimitException", "TimeoutException"}

----------------------------------------------------------------------------
(* DataHelper (utils/helpers.py 112-140)                                    *)

\* extract_error_info: (error.get("code"), error.get("info")) of
\* response["error"], (None, None) without an "error" key.
extract_error_info(response) ==
    LET has == PyIn("error", response)
    IN  IF has.exc # "ok" THEN Raises(has.exc)
        ELSE IF ~has.v THEN Ok(<<JNull, JNull>>)
        ELSE LET error == PyGetItem(response, "error")
             IN  IF error.exc # "ok" THEN Raises(error.exc)
                 ELSE IF PyGet(error.v, "code").exc # "ok"
                      THEN Raises(PyGet(error.v, "code").exc)
                 ELSE Ok(<<PyGet(error.v, "code").v, PyGet(error.v, "info").v>>)

\* log_response: the entries logged, and the exception that cuts it short.
log_response(response, ep) ==
    LET l1 == LogEntry("INFO", "Response from", <<JStr(ep)>>)
        inLoc == PyIn("location", response)
        l2 == LogEntry("INFO", "Status",
                       <<JStr(IF inLoc.v THEN "Success" ELSE "Error")>>)
        loc == PyGetItem(response, "location")
        name == PyGet(loc.v, "name")
        l3 == LogEntry("INFO", "Location",
                       <<name.v, PyGet(loc.v, "country").v>>)
        upToLoc == IF inLoc.v THEN <<l1, l2, l3>> ELSE <<l1, l2>>
        inErr == PyIn("error", response)
        err == PyGetItem(response, "error")
    IN  IF inLoc.exc # "ok" THEN [exc |-> inLoc.exc, log |-> <<l1>>]
        ELSE IF inLoc.v /\ loc.exc # "ok"
             THEN [exc |-> loc.exc, log |-> <<l1, l2>>]
        ELSE IF inLoc.v /\ name.exc # "ok"
             THEN [exc |-> name.exc, log |-> <<l1, l2>>]
        ELSE IF inErr.v /\ err.exc # "ok"
             THEN [exc |-> err.exc, log |-> upToLoc]
        ELSE IF inErr.v
             THEN [exc |-> "ok",
                   log |-> upToLoc \o <<LogEntry("ERROR", "Error", <<err.v>>)>>]
        ELSE [exc |-> "ok", log |-> upToLoc]

----------------------------------------------------------------------------
(* WeatherAPIClient (api_client/weather_client.py)                          *)

\* Python `error_code == n` for an int n: int, float and bool compare by
\* value, everything else (None, str, list, dict) is unequal.
PyEqInt(x, n) ==
    \/ x.t \in {"int", "float"} /\ x.v = n
    \/ x.t = "bool" /\ (IF x.v THEN 1 ELSE 0) = n

\* `error_code in [a, b, ...]`.
PyInIntList(x, ns) == \E n \in ns : PyEqInt(x, n)

InvalidKeyCodes == {101, 102}
InvalidLocationCodes == {601, 615}
UsageLimitCode == 104

\* The if / elif chain of _handle_error_response (lines 109-128).
ErrorKindSwapped(code) ==
    IF PyInIntList(code, InvalidLocationCodes) THEN "InvalidAPIKeyException"
    ELSE IF PyInIntList(code, InvalidKeyCodes) THEN "InvalidLocationException"
    ELSE IF PyEqInt(code, UsageLimitCode) THEN "UsageLimitException"
    ELSE "APIRequestException"

ErrorKind(code) ==
    IF PyInIntList(code, InvalidKeyCodes) THEN "InvalidAPIKeyException"
    ELSE IF PyInIntList(code, InvalidLocationCodes)
         THEN "InvalidLocationException"
    ELSE IF PyEqInt(code, UsageLimitCode) THEN "UsageLimitException"
    ELSE "APIRequestException"

ErrorText(kind) ==
    CASE kind = "InvalidAPIKeyException"   -> "Invalid API key: {info}"
      [] kind = "InvalidLocationException" -> "Invalid location: {info}"
      [] kind = "UsageLimitException"      -> "Usage limit reached: {info}"
      [] OTHER                             -> "API error {code}: {info}"

\* _handle_error_response(data): "return" or "raise", the exception, and
\* the entries logged on the way.
handle_error_response(d) ==
    LET has == PyIn("error", d)
        ei == extract_error_info(d)
        code == ei.v[1]
        info == ei.v[2]
        kind == ErrorKind(code)
    IN  IF has.exc # "ok"
        THEN [outcome |-> "raise", exc |-> BuiltinException(has.exc),
              log |-> <<>>]
        ELSE IF ~has.v
        THEN [outcome |-> "return", exc |-> NoException, log |-> <<>>]
        ELSE IF ei.exc # "ok"
        THEN [outcome |-> "raise", exc |-> BuiltinException(ei.exc),
              log |-> <<>>]
        ELSE [outcome |-> "raise",
              exc |-> Exception(kind, ErrorText(kind),
                                IF kind = "APIRequestException"
                                THEN <<code, info>> ELSE <<info>>, code),
              log |-> <<LogEntry("ERROR", "API Error", <<code, info>>)>>]

\* response.raise_for_status(): HTTPError for a 4xx or 5xx status.
RaisesForStatusAbove400(status) == 400 < status /\ status < 600

RaisesForStatus(status) == 400 <= status /\ status < 600

----------------------------------------------------------------------------
(* Inputs of the client: constructor and query arguments, and what the      *)
(* transport can answer to one GET.                                         *)

\* Query operations started on one client.
MaxCalls == 2

ApiKeys == {API_KEY, "caller-supplied-key"}
Locations == {"London", "Atlantis"}
UnitsInputs == {JStr("m"), JStr("kelvins")}
DateInputs == {JStr("2024-12-24")}
ForecastDaysInputs == {JInt(7), JInt(0)}

\* Exceptions session.get can raise (all are requests RequestException).
TimeoutErrors == {"ConnectTimeout", "ReadTimeout"}
OtherTransportErrors == {"ConnectionError", "ChunkedEncodingError"}
TransportErrors == TimeoutErrors \cup OtherTransportErrors

Statuses == {200, 399, 400, 500, 599}

\* A body response.json() cannot parse.
Unparseable == [t |-> "unparseable"]
\* What the transport did with the last GET: the requests exception it raised
\* ("none" when it returned a response), the response's status and body.
NoResponse == [error |-> "none", status |-> 0, body |-> Unset]

Location(name, country) ==
    JMap([k \in Range(LocationRequiredKeys) |->
            CASE k = "name" -> JStr(name)
              [] k = "country" -> JStr(country)
              [] OTHER -> JStr("London")])

Current ==
    JMap([k \in Range(CurrentRequiredKeys) |->
            IF k = "weather_descriptions" THEN JList(<<JStr("Sunny")>>)
            ELSE JInt(21)])

Success(extra) ==
    JMap([k \in {"request", "location", "current"} \cup extra |->
            CASE k = "location" -> Location("London", "United Kingdom")
              [] k = "current"  -> Current
              [] OTHER          -> EmptyMap])

ServiceError(code) ==
    JMap([k \in {"success", "error"} |->
            IF k = "success" THEN JBool(FALSE)
            ELSE JMap([f \in {"code", "type", "info"} |->
                         IF f = "code" THEN code ELSE JStr("x")])])

ErrorCodes ==
    { JInt(101), JInt(102), JInt(104), JInt(601), JInt(615), JInt(999),
      JInt(103), JFloat(101), JStr("101"), JNull }

\* An error mapping without a `code`.
ServiceErrorNoCode ==
    JMap([k \in {"error"} |-> JMap([f \in {"info"} |-> JStr("x")])])

\* A mapping with one key holding any shape.
OneKey(key, x) == JMap([k \in {key} |-> x])

\* Both a location and an error.
LocationAndError ==
    JMap([k \in {"location", "error"} |->
            IF k = "location" THEN Location("London", "United Kingdom")
            ELSE JMap([f \in {"code", "info"} |->
                         IF f = "code" THEN JInt(615) ELSE JStr("x")])])

TopLevelShapes ==
    Shapes \cup { JStr("internal error"), JStr("no location given"),
                  JList(<<JStr("error")>>), JList(<<JStr("location")>>) }

Payloads ==
    { Success({}), Success({"historical"}), Success({"forecast"}) }
    \cup { ServiceError(c) : c \in ErrorCodes }
    \cup { ServiceErrorNoCode, LocationAndError }
    \cup { OneKey(k, x) : k \in {"error", "location"},
                          x \in {JNull, JStr("x"), JInt(5), JList(<<>>)} }
    \cup TopLevelShapes

Bodies == Payloads \cup {Unparseable}

\* The status is read only by raise_for_status(), which runs only when the
\* body cannot be parsed (line 75): a parsed body comes with one success and
\* one failure status, an unparseable one with every status.
StatusesWith(body) == IF body = Unparseable THEN Statuses ELSE {200, 400}

----------------------------------------------------------------------------
(* The state machine.                                                       *)

\* The arguments of a query operation; Unset where the operation has none.
QueryArgs(location, units, historical_date, forecast_days) ==
    [location |-> location, units |-> units,
     historical_date |-> historical_date, forecast_days |-> forecast_days]

NoArgs == QueryArgs("", Unset, Unset, Unset)

\* Line 46: `retry_count: int = 0`, the value every query operation starts
\* _make_request with.
CarriedRetryCount == retry_count

DefaultRetryCount == 0

Init ==
    /\ api_key \in ApiKeys
    /\ base_url = API_BASE_URL
    /\ timeout = TIMEOUT
    /\ max_retries = MAX_RETRIES
    /\ pc = "idle"
    /\ op = "none"
    /\ qargs = NoArgs
    /\ endpoint = ""
    /\ params = EmptyMap.v
    /\ retry_count = 0
    /\ answer = NoResponse
    /\ data = Unset
    /\ result = Unset
    /\ exc = NoException
    /\ gets = <<>>
    /\ sleeps = 0
    /\ timeouts = 0
    /\ log = <<>>
    /\ detectLog = 0
    /\ calls = 0
    /\ earlierRetries = FALSE
    /\ vfun = "none"
    /\ varg = Unset
    /\ vret = Ok(FALSE)
    /\ vlog = <<>>

\* A query operation up to its call of self._make_request(endpoint, params):
\* retry_count takes its default 0.
StartQuery(kind, a, p) ==
    /\ pc = "idle"
    /\ calls < MaxCalls
    /\ calls' = calls + 1
    /\ earlierRetries' = (earlierRetries \/ sleeps > 0)
    /\ pc' = "request"
    /\ op' = kind
    /\ qargs' = a
    /\ endpoint' = ENDPOINTS[kind]
    /\ params' = p
    /\ retry_count' = DefaultRetryCount
    /\ answer' = NoResponse
    /\ data' = Unset
    /\ result' = Unset
    /\ exc' = NoException
    /\ gets' = <<>>
    /\ sleeps' = 0
    /\ timeouts' = 0
    /\ log' = <<>>
    /\ detectLog' = 0
    /\ UNCHANGED <<clientVars, validatorVars>>

get_current_weather ==
    \E location \in Locations, units \in UnitsInputs :
        StartQuery("current", QueryArgs(location, units, Unset, Unset),
                   [access_key |-> JStr(api_key), query |-> JStr(location),
                    units |-> units])

get_historical_weather ==
    \E location \in Locations, historical_date \in DateInputs,
       units \in UnitsInputs :
        StartQuery("historical",
                   QueryArgs(location, units, historical_date, Unset),
                   [access_key |-> JStr(api_key), query |-> JStr(location),
                    historical_date |-> historical_date, units |-> units])

get_forecast_weather ==
    \E location \in Locations, forecast_days \in ForecastDaysInputs,
       units \in UnitsInputs :
        StartQuery("forecast",
                   QueryArgs(location, units, Unset, forecast_days),
                   [access_key |-> JStr(api_key), query |-> JStr(location),
                    forecast_days |-> forecast_days, units |-> units])

\* Lines 63-67: the URL, the "Making request" entry, session.get(...).
RequestLog ==
    LogEntry("INFO", "Making request",
             <<JStr(base_url), JStr(endpoint), JMap(params)>>)

Get == [url |-> <<base_url, endpoint>>, params |-> params, timeout |-> timeout]

\* Which except clause of _make_request takes a requests exception:
\* `except requests.exceptions.Timeout` comes first (line 82), every other
\* RequestException falls to line 89.
CaughtAsTimeoutAll(e) == TRUE

CaughtAsTimeout(e) == e \in TimeoutErrors

\* Line 83: the retry guard.
MayRetryInclusive(rc, mr) == rc <= mr

MayRetry(rc, mr) == rc < mr

\* The except clauses of _make_request (lines 82-91) for the requests
\* exception e raised in the try block, `sent` and `logged` being the GETs
\* and log entries so far.
Except(e, sent, logged) ==
    /\ gets' = sent
    /\ UNCHANGED <<clientVars, validatorVars, queryVars, endpoint, params, data,
                   result, calls>>
    /\ IF CaughtAsTimeout(e)
       THEN IF MayRetry(retry_count, max_retries)
            THEN /\ log' = logged \o
                       <<LogEntry("WARNING", "Request timeout. Retrying",
                                  <<JInt(retry_count + 1),
                                    JInt(max_retries)>>)>>
                 /\ sleeps' = sleeps + 1
                 /\ retry_count' = retry_count + 1
                 /\ pc' = "request"
                 /\ UNCHANGED <<exc, detectLog>>
            ELSE /\ log' = logged
                 /\ exc' = Exception("TimeoutException",
                               "Request timeout after maximum retries",
                               <<>>, JNull)
                 /\ pc' = "raised"
                 /\ detectLog' = Len(log)
                 /\ UNCHANGED <<sleeps, retry_count>>
       ELSE /\ log' = logged \o
                  <<LogEntry("ERROR", "Request failed", <<JStr(e)>>)>>
            /\ exc' = Exception("APIRequestException", "Request failed: {e}",
                                <<JStr(e)>>, JNull)
            /\ pc' = "raised"
            /\ detectLog' = Len(log)
            /\ UNCHANGED <<sleeps, retry_count>>

\* One attempt whose session.get raises.
MakeRequestTransportError ==
    /\ pc = "request"
    /\ \E e \in TransportErrors :
          /\ answer' = [NoResponse EXCEPT !.error = e]
          /\ timeouts' = timeouts + (IF e \in TimeoutErrors THEN 1 ELSE 0)
          /\ Except(e, Append(gets, Get), Append(log, RequestLog))

\* One attempt whose session.get returns a response (lines 67-80).
MakeRequestResponse ==
    /\ pc = "request"
    /\ \E body \in Bodies, status \in Statuses :
          /\ status \in StatusesWith(body)
          /\ answer' = [error |-> "none", status |-> status, body |-> body]
          /\ UNCHANGED timeouts
          /\ IF body = Unparseable
             THEN IF RaisesForStatus(status)
                  THEN Except("HTTPError", Append(gets, Get),
                              Append(log, RequestLog))
                  ELSE /\ exc' = Exception("APIRequestException",
                                     "Invalid JSON response from API",
                                     <<>>, JNull)
                       /\ pc' = "raised"
                       /\ gets' = Append(gets, Get)
                       /\ log' = Append(log, RequestLog)
                       /\ detectLog' = Len(log)
                       /\ UNCHANGED <<clientVars, validatorVars, queryVars,
                                      endpoint, params, data, result, calls, sleeps,
                                      retry_count>>
             ELSE LET lr == log_response(body, endpoint)
                  IN  /\ gets' = Append(gets, Get)
                      /\ log' = Append(log, RequestLog) \o lr.log
                      /\ IF lr.exc = "ok"
                         THEN /\ data' = body
                              /\ pc' = "handle"
                              /\ UNCHANGED <<exc, detectLog>>
                         ELSE /\ exc' = BuiltinException(lr.exc)
                              /\ pc' = "raised"
                              /\ detectLog' = Len(log)
                              /\ UNCHANGED data
                      /\ UNCHANGED <<clientVars, validatorVars, queryVars,
                                     endpoint, params, result, calls, sleeps,
                                     retry_count>>

\* Line 162 (198, 234): `return data`.
ReturnValueWithoutRequest(d) ==
    IF d.t = "map"
    THEN JMap([k \in DOMAIN d.v \ {"request"} |-> d.v[k]])
    ELSE d

ReturnValue(d) == d

\* self._handle_error_response(data), then `return data`.
HandleErrorResponse ==
    /\ pc = "handle"
    /\ LET h == handle_error_response(data)
       IN  /\ log' = log \o h.log
           /\ detectLog' = Len(log)
           /\ exc' = h.exc
           /\ IF h.outcome = "return"
              THEN /\ result' = ReturnValue(data)
                   /\ pc' = "returned"
              ELSE /\ pc' = "raised"
                   /\ UNCHANGED result
    /\ UNCHANGED <<clientVars, validatorVars, queryVars, endpoint, params,
                   retry_count, answer, data, gets, sleeps, timeouts, calls>>

\* The caller has the value or the exception; the client is idle again.
Finished ==
    /\ pc \in {"returned", "raised"}
    /\ pc' = "idle"
    /\ UNCHANGED <<clientVars, validatorVars, queryVars, endpoint, params,
                   retry_count, answer, data, result, exc, gets, sleeps,
                   timeouts, log, detectLog, calls>>

Next ==
    \/ get_current_weather
    \/ get_historical_weather
    \/ get_forecast_weather
    \/ MakeRequestTransportError
    \/ MakeRequestResponse
    \/ HandleErrorResponse
    \/ Finished

Spec == Init /\ [][Next]_vars

\* session.get is bounded by `timeout` (line 67): every attempt ends with a
\* response or an exception, and the synchronous code between two GETs
\* (time.sleep(1), _handle_error_response) always runs to its end.
SpecFair ==
    /\ Spec
    /\ WF_vars(MakeRequestTransportError \/ MakeRequestResponse)
    /\ WF_vars(HandleErrorResponse)

----------------------------------------------------------------------------
(* Direct calls of the validators: the argument is drawn at the start, and  *)
(* each operation whose input set holds it may be applied to it.            *)

ValidatorInputs ==
    StructureInputs \cup LocationInputs \cup CurrentInputs
    \cup DataTypesInputs

InitV ==
    /\ api_key = API_KEY
    /\ base_url = API_BASE_URL
    /\ timeout = TIMEOUT
    /\ max_retries = MAX_RETRIES
    /\ pc = "idle"
    /\ op = "none"
    /\ qargs = NoArgs
    /\ endpoint = ""
    /\ params = EmptyMap.v
    /\ retry_count = 0
    /\ answer = NoResponse
    /\ data = Unset
    /\ result = Unset
    /\ exc = NoException
    /\ gets = <<>>
    /\ sleeps = 0
    /\ timeouts = 0
    /\ log = <<>>
    /\ detectLog = 0
    /\ calls = 0
    /\ earlierRetries = FALSE
    /\ vfun = "none"
    /\ varg \in ValidatorInputs
    /\ vret = Ok(FALSE)
    /\ vlog = <<>>

ValidatorCall(name, r) ==
    /\ vfun = "none"
    /\ vfun' = name
    /\ vret' = [exc |-> r.exc, v |-> r.v]
    /\ vlog' = r.log
    /\ UNCHANGED <<clientVars, callVars, varg>>

CallValidateResponseStructure ==
    /\ varg \in StructureInputs
    /\ ValidatorCall("validate_response_structure",
                     validate_response_structure(varg))

CallValidateLocationData ==
    /\ varg \in LocationInputs
    /\ ValidatorCall("validate_location_data", validate_location_data(varg))

CallValidateCurrentWeatherData ==
    /\ varg \in CurrentInputs
    /\ ValidatorCall("validate_current_weather_data",
                     validate_current_weather_data(varg))

CallValidateDataTypes ==
    /\ varg \in DataTypesInputs
    /\ ValidatorCall("validate_data_types", validate_data_types(varg))

NextV ==
    \/ CallValidateResponseStructure
    \/ CallValidateLocationData
    \/ CallValidateCurrentWeatherData
    \/ CallValidateDataTypes

SpecV == InitV /\ [][NextV]_vars

----------------------------------------------------------------------------
(* Properties of the client (checked under Spec).                           *)

\* A payload of the shape the service documents: a JSON object whose
\* `location`, when present, is an object.
ObjectPayload(p) ==
    /\ p.t = "map"
    /\ "location" \in DOMAIN p.v => p.v["location"].t = "map"

HasErrorKey(p) == p.t = "map" /\ "error" \in DOMAIN p.v

\* The transport returned a response to the last GET of the current call.
Answered == answer.error = "none" /\ answer.body # Unset

\* The counts: a _make_request started with retry_count = 0 whose first N
\* GETs time out and whose next GET is answered with a parseable body has, when
\* N <= max_retries, made exactly N retries, N + 1 GETs and N sleeps, and it
\* returns that body (an object payload); TimeoutException is raised only
\* after max_retries + 1 timed-out GETs, max_retries retries and
\* max_retries sleeps; no GET follows the exception, and no call makes more
\* than max_retries + 1 GETs.
RetryCounts ==
    /\ retry_count <= max_retries
    /\ Len(gets) <= max_retries + 1
    /\ (Answered /\ answer.body # Unparseable) =>
          /\ timeouts <= max_retries
          /\ retry_count = timeouts
          /\ Len(gets) = timeouts + 1
          /\ sleeps = timeouts
          /\ ObjectPayload(answer.body) =>
                (pc # "request" /\ data = answer.body)
    /\ exc.kind = "TimeoutException" =>
          /\ timeouts = max_retries + 1
          /\ retry_count = max_retries
          /\ Len(gets) = max_retries + 1
          /\ sleeps = max_retries
          /\ answer.error \in TimeoutErrors
    /\ pc = "raised" =>
          ~ENABLED (MakeRequestTransportError \/ MakeRequestResponse)

CodeIs(code, n) == code.t \in {"int", "float"} /\ code.v = n

C3_OnlyTaxonomyEscapes ==
    /\ pc = "raised" => exc.kind \in LeafKinds
    /\ pc = "returned" => (result = answer.body /\ ~HasErrorKey(result))

\* C5: a GET that fails with a requests exception other than a timeout ends
\* the call at once with APIRequestException carrying the cause: no sleep
\* and no GET follow it, on the first attempt or after timeouts; and a
\* response, whatever its body, is never followed by another GET.
C5_OnlyTimeoutRetried ==
    /\ answer.error \in OtherTransportErrors =>
          /\ pc \in {"raised", "idle"}
          /\ exc.kind = "APIRequestException"
          /\ exc.args = <<JStr(answer.error)>>
          /\ Len(gets) = timeouts + 1
          /\ sleeps = timeouts
    /\ Answered =>
          /\ pc # "request"
          /\ Len(gets) = timeouts + 1
          /\ sleeps = timeouts

\* A connection failure after two timeouts.
C5_Witness ==
    /\ pc = "raised"
    /\ answer.error = "ConnectionError"
    /\ timeouts = 2
    /\ Len(gets) = 3

\* C6: when the body cannot be parsed, the HTTP status is checked first: a
\* 4xx / 5xx status raises APIRequestException for the HTTP failure, any
\* other status raises APIRequestException for the invalid JSON; nothing is
\* returned and no GET follows.
C6_UnparseableBody ==
    (Answered /\ answer.body = Unparseable) =>
       /\ pc \in {"raised", "idle"}
       /\ exc.kind = "APIRequestException"
       /\ data = Unset
       /\ result = Unset
       /\ Len(gets) = timeouts + 1
       /\ IF 400 <= answer.status /\ answer.status <= 599
          THEN /\ exc.text = "Request failed: {e}"
               /\ exc.args = <<JStr("HTTPError")>>
          ELSE /\ exc.text = "Invalid JSON response from API"
               /\ exc.args = <<>>

C6_Witness ==
    /\ pc = "raised"
    /\ answer.body = Unparseable
    /\ answer.status = 400
    /\ exc.args = <<JStr("HTTPError")>>

\* C7: every call that ends by raising one of the five kinds has emitted,
\* in the attempt or step that detected the error, a log entry describing
\* it; for a service-reported error that entry holds the code and the info.
C7_EveryErrorPathLogs ==
    (pc = "raised" /\ exc.kind \in LeafKinds) =>
       \E i \in (detectLog + 1)..Len(log) :
          /\ log[i].level = "ERROR"
          /\ HasErrorKey(data) =>
                /\ log[i].what = "API Error"
                /\ log[i].args[1] = exc.error_code

PathOf(kind) ==
    CASE kind = "current"    -> "/current"
      [] kind = "historical" -> "/historical"
      [] kind = "forecast"   -> "/forecast"
      [] OTHER               -> ""

ExtraParamOf(kind) ==
    CASE kind = "historical" -> {"historical_date"}
      [] kind = "forecast"   -> {"forecast_days"}
      [] OTHER               -> {}

\* C11: every GET of a query operation, the first and every retry, goes to
\* the base URL plus that operation's path, with access_key = the client's
\* credential, query = the location given and units = the units given;
\* historical adds only historical_date, forecast adds only forecast_days,
\* current adds nothing; units and forecast_days arrive as given, and no
\* exception leaves the operation before a GET was made.
C11_GetsCarryQuery ==
    /\ \A i \in 1..Len(gets) :
          /\ gets[i].url = <<API_BASE_URL, PathOf(op)>>
          /\ DOMAIN gets[i].params =
                {"access_key", "query", "units"} \cup ExtraParamOf(op)
          /\ gets[i].params["access_key"] = JStr(api_key)
          /\ gets[i].params["query"] = JStr(qargs.location)
          /\ gets[i].params["units"] = qargs.units
          /\ op = "historical" =>
                gets[i].params["historical_date"] = qargs.historical_date
          /\ op = "forecast" =>
                gets[i].params["forecast_days"] = qargs.forecast_days
    /\ exc.kind # "none" => Len(gets) >= 1

\* A forecast for 0 days in unknown units, sent a third time after two
\* timeouts with the caller's own credential.
C11_Witness ==
    /\ op = "forecast"
    /\ api_key = "caller-supplied-key"
    /\ Len(gets) = 3
    /\ timeouts = 2
    /\ qargs.units = JStr("kelvins")
    /\ gets[3].params["forecast_days"] = JInt(0)
    /\ gets[3].url[2] = "/forecast"

\* What holds of the client whatever the earlier calls did.
NoCrossCallState ==
    /\ base_url = API_BASE_URL
    /\ timeout = TIMEOUT
    /\ max_retries = MAX_RETRIES
    /\ api_key \in ApiKeys
    /\ (pc = "request" /\ gets = <<>>) =>
          (retry_count = 0 /\ sleeps = 0 /\ timeouts = 0)
    /\ pc = "request" => (retry_count = Len(gets) /\ retry_count <= MAX_RETRIES)
    /\ exc.kind = "TimeoutException" =>
          (Len(gets) = MAX_RETRIES + 1 /\ sleeps = MAX_RETRIES)
    /\ \A i \in 1..Len(gets) : gets[i].timeout = TIMEOUT

\* C12: no step of any query operation changes the client's credential,
\* base URL, timeout or max_retries; every query operation starts with
\* retry_count 0, and a later call has the whole budget of max_retries
\* retries (TimeoutException only after max_retries + 1 GETs) whatever the
\* earlier calls consumed.
C12_NoCrossCallState ==
    /\ []NoCrossCallState
    /\ [][clientVars' = clientVars]_vars

\* A later call that uses all max_retries retries and then gets its answer,
\* on a client whose earlier call had already retried.
C12_Witness ==
    /\ calls = 2
    /\ earlierRetries
    /\ pc = "returned"
    /\ sleeps = MAX_RETRIES
    /\ Len(gets) = MAX_RETRIES + 1

----------------------------------------------------------------------------
(* Properties of the validators (checked under SpecV).                      *)

\* C4: none of the four validator operations raises, whatever parsed value
\* it is given.
C4_ValidatorsNeverRaise == vfun # "none" => vret.exc = "ok"

\* The value at path sub.f of a payload, JNull when there is none.
Field(p, sub, f) ==
    IF p.t = "map" /\ sub \in DOMAIN p.v /\ p.v[sub].t = "map"
       /\ f \in DOMAIN p.v[sub].v
    THEN p.v[sub].v[f]
    ELSE JNull

\* C8: validate_data_types is true exactly when location.name, country, lat
\* and lon are strings, current.temperature, wind_speed, humidity and
\* pressure are numbers (a boolean is not a number) and
\* current.weather_descriptions is a sequence.
C8_DataTypesExactly ==
    vfun = "validate_data_types" =>
       /\ vret.exc = "ok"
       /\ vret.v <=>
             /\ \A f \in {"name", "country", "lat", "lon"} :
                   Field(varg, "location", f).t = "str"
             /\ \A f \in {"temperature", "wind_speed", "humidity", "pressure"} :
                   Field(varg, "current", f).t \in {"int", "float"}
             /\ Field(varg, "current", "weather_descriptions").t = "list"

\* C9: on a mapping, validate_response_structure is true exactly when
\* `request`, `location` and `current` are all keys of it; otherwise it is
\* false and logs exactly the required keys that are absent; other keys do
\* not matter.
C9_ResponseStructure ==
    (vfun = "validate_response_structure" /\ varg.t = "map") =>
       LET absent == {"request", "location", "current"} \ DOMAIN varg.v
       IN  /\ vret.exc = "ok"
           /\ vret.v <=> absent = {}
           /\ vret.v => vlog = <<>>
           /\ ~vret.v =>
                 /\ Len(vlog) = 1
                 /\ vlog[1].what = "Missing required keys"
                 /\ {x.v : x \in Range(vlog[1].args)} = absent
                 /\ Len(vlog[1].args) = Cardinality(absent)

\* `current` alone is missing, with `error` and `forecast` present.
C9_Witness ==
    /\ vfun = "validate_response_structure"
    /\ varg.t = "map"
    /\ DOMAIN varg.v = {"request", "location", "error", "forecast"}
    /\ vret.v = FALSE
    /\ vlog[1].args = <<JStr("current")>>

====
